---- MODULE Spec2Model ----
(***************************************************************************)
(* A model of pyrax/object_storage.py: object creation (whole-object and   *)
(* segmented upload) and whole/bounded fetch, as seen from the sequence of *)
(* HTTP requests the client issues.                                        *)
(*                                                                         *)
(* Conventions                                                             *)
(*  - Python's None is the empty tuple, a present value x is <<x>>.        *)
(*  - Object and container names are sequences of one-character strings,   *)
(*    so that "%s.%s" formatting, zfill and string ordering are computed.  *)
(*  - Sizes are counted in a scaled unit: TLC integers are 32 bits wide    *)
(*    and cannot hold 5368709119, so MAX_FILE_SIZE stands for the source's *)
(*    constant at a small value; every size is relative to it.             *)
(*  - The interpreter is Python 2 (the code raises StopIteration inside a  *)
(*    generator and the tests use random_unicode): None compares smaller   *)
(*    than every integer.                                                  *)
(***************************************************************************)
EXTENDS Integers, Sequences, FiniteSets, TLC

VARIABLES
    pc,            \* position of the call in progress
    op,            \* "none", "create" or "fetch"
    entry,         \* the public entry point the caller used
    call,          \* the arguments as the caller passed them
    args,          \* the arguments as they reach StorageObjectManager.create
    obj_name,      \* the resolved object name (a character sequence)
    content,       \* the content handed to _upload
    fsize,         \* _upload's resolved size (None when chunked)
    num_segments,  \* _upload's num_segments
    digits,        \* _upload's digits
    segment,       \* _upload's loop variable
    pos,           \* read position of a file-like content
    headers,       \* the header dict shared by all PUTs of one upload
    log,           \* the HTTP requests issued so far, in order
    result,        \* how the call ended
    gen,           \* the locals of the _fetch_chunker generator
    yielded,       \* the chunks the generator has yielded, in order
    _local_files,  \* StorageClient._local_files: the names the sync has visited
    stack,         \* the frames of _sync_folder_to_container in progress
    cur,           \* the comparison the sync made last
    deleter,       \* the BulkDeleter thread
    folder_upload_status,  \* StorageClient.folder_upload_status
    uploader,      \* the FolderUploader thread
    cancels,       \* the calls of cancel_folder_upload made so far
    _cached_temp_url_key,  \* StorageClient._cached_temp_url_key
    temp_url,      \* the URL get_temp_url returned
    other          \* a second sync_folder_to_container call on the client

\* The variables of sync_folder_to_container and of the bulk deleter.
syncVars == <<_local_files, stack, cur, deleter>>

\* The variables of a second, concurrent sync on the same client.
otherVars == <<other>>

\* The variables of the temporary URLs.
clientVars == <<_cached_temp_url_key, temp_url>>

\* The variables of upload_folder and of the FolderUploader thread.
folderVars == <<folder_upload_status, uploader, cancels>>

\* The variables of object creation and of whole/bounded fetch.
createVars == <<pc, op, entry, call, args, obj_name, content, fsize,
                num_segments, digits, segment, pos, headers, log, result>>

\* The variables of the chunked fetch.
chunkVars == <<gen, yielded>>

\* The variables the actions of object creation leave alone.
nonCreateVars == <<chunkVars, syncVars, folderVars, clientVars, otherVars>>

vars == <<createVars, chunkVars, syncVars, folderVars, clientVars,
         otherVars>>

-----------------------------------------------------------------------------
(* Bounds *)

\* The maximum size of a stored object, in scaled units (source: 5368709119).
MAX_FILE_SIZE == 2

\* The largest number of full segments a modelled source spans.
MaxSegments == 10

\* The largest size of an object fetched, and the largest fetch size limit.
MaxFetch == 5

MaxSize == MaxSegments * MAX_FILE_SIZE + 1

-----------------------------------------------------------------------------
(* Python values *)

None == <<>>
Some(x) == <<x>>
Val(o) == o[1]

Min(a, b) == IF a <= b THEN a ELSE b

\* Names used by the modelled calls.
ContainerName == <<"c">>
GivenName == <<"o">>
FileBaseName == <<"f">>

DigitChars == <<"0", "1", "2", "3", "4", "5", "6", "7", "8", "9">>

\* str(n) for n >= 0.
RECURSIVE str(_)
str(n) == IF n < 10 THEN <<DigitChars[n + 1]>>
          ELSE str(n \div 10) \o <<DigitChars[(n % 10) + 1]>>

\* s.zfill(width)
zfill(s, width) ==
    IF Len(s) >= width THEN s
    ELSE [i \in 1..(width - Len(s)) |-> "0"] \o s

\* int(math.log10(n)) for n >= 1.
RECURSIVE log10_floor(_)
log10_floor(n) == IF n < 10 THEN 0 ELSE 1 + log10_floor(n \div 10)

\* int(math.ceil(float(a) / b))
ceil_div(a, b) == (a + b - 1) \div b

\* Python 2: "fsize <= MAX_FILE_SIZE", where None is smaller than any int.
fsize_fits(fs) == fs = None \/ Val(fs) <= MAX_FILE_SIZE

\* dict operations
dict_pop(h, k) == [x \in (DOMAIN h) \ {k} |-> h[x]]
dict_set(h, k, v) == [x \in (DOMAIN h) \cup {k} |-> IF x = k THEN v ELSE h[x]]
dict_get(h, k) == IF k \in DOMAIN h THEN h[k] ELSE None
EmptyDict == [x \in {} |-> None]

-----------------------------------------------------------------------------
(* Argument spaces *)

Sizes == 0..MaxSize

NoSource == [kind |-> "none", size |-> 0]

\* data: a byte string or a file-like stream.
DataVals == {NoSource}
            \cup [kind : {"str", "stream"}, size : Sizes]

\* file_or_path: a path that does not exist, the path of a regular file,
\* the path of a directory, or an open file-like object.
PathVals == {NoSource}
            \cup {[kind |-> "missing_path", size |-> 0],
                  [kind |-> "dir_path", size |-> 1]}
            \cup [kind : {"file_path", "file_object"}, size : Sizes]

LengthVals == {None, Some(1), Some(MAX_FILE_SIZE + 1)}

EtagVals == {None, Some("caller")}

CreateArgs ==
    {a \in [container : {"name", "object"},
            data : DataVals, file_or_path : PathVals,
            obj_name : {None, Some(GivenName)},
            content_length : LengthVals, etag : EtagVals,
            chunked : BOOLEAN, return_none : BOOLEAN] :
        \* at most one content source is passed
        /\ a.data = NoSource \/ a.file_or_path = NoSource
        \* chunked is only meaningful together with data
        /\ a.chunked => a.data # NoSource}

Entries == {"StorageObjectManager.create", "Container.create",
            "StorageClient.create_object", "StorageClient.store_object",
            "StorageClient.upload_file"}

ClientEntries == {"StorageClient.create_object", "StorageClient.store_object",
                  "StorageClient.upload_file"}

-----------------------------------------------------------------------------
(* HTTP requests *)

Request(method, name, body, hdrs, ok) ==
    [method |-> method, name |-> name, body |-> body, headers |-> hdrs,
     ok |-> ok]

ObjectUri(name) == ContainerName \o <<"/">> \o name

-----------------------------------------------------------------------------
(* Wrappers around StorageObjectManager.create *)

\* StorageClient.store_object forwards obj_name, data, etag, return_none.
client_store_object(a) ==
    [a EXCEPT !.file_or_path = NoSource, !.content_length = None,
              !.chunked = FALSE]

\* StorageClient.upload_file forwards file_or_path, obj_name, etag,
\* return_none; content_length is accepted but not forwarded.
client_upload_file(a) ==
    [a EXCEPT !.data = NoSource, !.content_length = None, !.chunked = FALSE]

\* Container.create forwards everything except return_none.
Container_create(a) == [a EXCEPT !.return_none = FALSE]

\* The arguments that reach StorageObjectManager.create from entry point e.
Forwarded(e, a) ==
    CASE e = "StorageObjectManager.create" -> a
      [] e = "Container.create" -> Container_create(a)
      [] e = "StorageClient.create_object" -> Container_create(a)
      [] e = "StorageClient.store_object" -> Container_create(client_store_object(a))
      [] e = "StorageClient.upload_file" -> Container_create(client_upload_file(a))

\* What the signature of entry point e lets the caller pass.
Accepts(e, a) ==
    CASE e = "StorageClient.store_object" ->
            a = client_store_object(a) /\ a.data # NoSource /\ a.obj_name # None
      [] e = "StorageClient.upload_file" ->
            [a EXCEPT !.content_length = None] = client_upload_file(a)
            /\ a.file_or_path # NoSource
      [] e = "StorageClient.create_object" -> TRUE
      [] OTHER -> a.container = "object"

-----------------------------------------------------------------------------
(* Initial state *)

NoArgs == [container |-> "object"]
NoGen == [state |-> "none"]
NoUploader == [state |-> "none", stack |-> <<>>, phase |-> "check",
               file |-> <<>>, obj_size |-> 0]
NoOther == [state |-> "none", todo |-> {}, visited |-> {},
            objnames |-> {}, object_names |-> {}]
NoDeleter == [state |-> "none", object_names |-> {}, results |-> None,
              completed |-> FALSE]
NoResult == [kind |-> "none", what |-> "", at |-> ""]
Raised(e, at) == [kind |-> "raised", what |-> e, at |-> at]
Returned(v) == [kind |-> "returned", what |-> v, at |-> "done"]

Init ==
    /\ pc = "idle"
    /\ op = "none"
    /\ entry = ""
    /\ call = NoArgs
    /\ args = NoArgs
    /\ obj_name = None
    /\ content = NoSource
    /\ fsize = None
    /\ num_segments = 0
    /\ digits = 0
    /\ segment = 0
    /\ pos = 0
    /\ headers = EmptyDict
    /\ log = <<>>
    /\ result = NoResult
    /\ gen = NoGen
    /\ yielded = <<>>
    /\ _local_files = <<>>
    /\ stack = <<>>
    /\ cur = None
    /\ deleter = NoDeleter
    /\ folder_upload_status = EmptyDict
    /\ uploader = NoUploader
    /\ cancels = <<>>
    /\ _cached_temp_url_key = Some("")
    /\ temp_url = None
    /\ other = NoOther

-----------------------------------------------------------------------------
(* Object creation *)

\* Python truthiness of the data argument: a non-empty string, or any object.
Truthy(src) == src.kind = "stream" \/ (src.kind = "str" /\ src.size > 0)

\* _validate_file_or_path: the name to use, or the exception raised.
_validate_file_or_path(file_or_path, name) ==
    IF file_or_path.kind = "missing_path"
    THEN [raised |-> "FileNotFound", name |-> None]
    ELSE LET fname == IF file_or_path.kind = "none"
                      THEN None
                      ELSE Some(FileBaseName)
         IN  [raised |-> "",
              name |-> IF name # None THEN name ELSE fname]

\* get_file_size
get_file_size(fileobj) == fileobj.size

\* A caller enters one of the public entry points.
Call ==
    /\ pc = "idle"
    /\ UNCHANGED nonCreateVars
    /\ \E e \in Entries, a \in CreateArgs :
        /\ Accepts(e, a)
        /\ entry' = e
        /\ call' = a
        /\ args' = Forwarded(e, a)
        /\ pc' = IF e \in ClientEntries THEN "assure_container" ELSE "create"
    /\ op' = "create"
    /\ UNCHANGED <<obj_name, content, fsize, num_segments, digits, segment,
                   pos, headers, log, result>>

\* assure_container: a container passed by name is looked up with a HEAD.
assure_container ==
    /\ pc = "assure_container"
    /\ UNCHANGED nonCreateVars
    /\ IF call.container = "name"
       THEN \E ok \in BOOLEAN :
              /\ log' = Append(log, Request("HEAD", ContainerName, None,
                                            EmptyDict, ok))
              /\ IF ok
                 THEN pc' = "create" /\ UNCHANGED result
                 ELSE /\ pc' = "done"
                      /\ result' = Raised("NotFound", "assure_container")
       ELSE pc' = "create" /\ UNCHANGED <<log, result>>
    /\ UNCHANGED <<op, entry, call, args, obj_name, content, fsize,
                   num_segments, digits, segment, pos, headers>>

\* StorageObjectManager.create up to the call of _upload.
create ==
    /\ pc = "create"
    /\ UNCHANGED nonCreateVars
    /\ LET data == args.data
           file_or_path == args.file_or_path
           src_is_data == Truthy(data)
           validated == IF src_is_data
                        THEN [raised |-> "", name |-> args.obj_name]
                        ELSE _validate_file_or_path(file_or_path,
                                                    args.obj_name)
           failure ==
               IF data = NoSource /\ file_or_path = NoSource
               THEN "NoContentSpecified"
               ELSE IF validated.raised # "" THEN validated.raised
               ELSE IF validated.name = None THEN "MissingName"
               ELSE IF ~src_is_data
                       /\ file_or_path.kind \in {"none", "file_object"}
               THEN "TypeError"     \* os.path.isfile of a non-path
               ELSE ""
       IN  IF failure # ""
           THEN /\ pc' = "done"
                /\ result' = Raised(failure, "create")
                /\ UNCHANGED <<obj_name, content, args, headers>>
           ELSE /\ pc' = "upload"
                /\ obj_name' = validated.name
                /\ headers' = EmptyDict
                /\ IF src_is_data
                   THEN content' = data /\ UNCHANGED args
                   ELSE /\ args' = [args EXCEPT !.chunked = FALSE]
                        /\ content' =
                             IF file_or_path.kind = "file_path"
                             THEN [kind |-> "stream",
                                   size |-> file_or_path.size]
                             ELSE [kind |-> "str",
                                   size |-> file_or_path.size]
                /\ UNCHANGED result
    /\ UNCHANGED <<op, entry, call, fsize, num_segments, digits, segment,
                   pos, log>>

\* A variant of _store_object that computes a checksum whenever no etag is
\* passed, also for an absent content.
_store_object_always_etag(name, cont, etag, chunked, hdrs, ok) ==
    LET h0 == dict_pop(hdrs, "ETag")
        h1 == IF chunked
              THEN dict_set(dict_pop(h0, "Content-Length"),
                            "Transfer-Encoding", "chunked")
              ELSE h0
        tag == IF ~chunked /\ etag = None THEN Some("md5") ELSE etag
        h2 == IF tag # None THEN dict_set(h1, "ETag", Val(tag)) ELSE h1
        h3 == IF dict_get(h2, "Content-Type") = None
              THEN dict_set(h2, "Content-Type", None)
              ELSE h2
    IN  [headers |-> h3,
         request |-> Request("PUT", ObjectUri(name), cont, h3, ok)]

\* _store_object: the header dict after the call and the PUT it issues.
\* cont is None or the length of the body.
_store_object(name, cont, etag, chunked, hdrs, ok) ==
    LET h0 == dict_pop(hdrs, "ETag")
        h1 == IF chunked
              THEN dict_set(dict_pop(h0, "Content-Length"),
                            "Transfer-Encoding", "chunked")
              ELSE h0
        tag == IF ~chunked /\ etag = None /\ cont # None
               THEN Some("md5")
               ELSE etag
        h2 == IF tag # None THEN dict_set(h1, "ETag", Val(tag)) ELSE h1
        h3 == IF dict_get(h2, "Content-Type") = None
              THEN dict_set(h2, "Content-Type", None)
              ELSE h2
    IN  [headers |-> h3,
         request |-> Request("PUT", ObjectUri(name), cont, h3, ok)]

\* The size _upload resolves for the content.
resolve_fsize(cont, chunked, content_length) ==
    IF cont.kind = "str" THEN Some(cont.size)
    ELSE IF chunked THEN None
    ELSE IF content_length = None THEN Some(get_file_size(cont))
    ELSE content_length

\* _upload up to the segment loop: a single PUT when the size fits.
_upload ==
    /\ pc = "upload"
    /\ UNCHANGED nonCreateVars
    /\ LET fs == resolve_fsize(content, args.chunked, args.content_length)
       IN  /\ fsize' = fs
           /\ IF fsize_fits(fs)
              THEN \E ok \in BOOLEAN :
                     LET st == _store_object(Val(obj_name),
                                             Some(content.size), args.etag,
                                             args.chunked, headers, ok)
                     IN  /\ headers' = st.headers
                         /\ log' = Append(log, st.request)
                         /\ IF ok
                            THEN pc' = "uploaded" /\ UNCHANGED result
                            ELSE /\ pc' = "done"
                                 /\ result' = Raised("ClientException",
                                                     "upload")
                         /\ UNCHANGED <<num_segments, digits, segment>>
              ELSE /\ num_segments' = ceil_div(Val(fs), MAX_FILE_SIZE)
                   /\ digits' = log10_floor(num_segments') + 1
                   /\ segment' = 0
                   /\ pc' = "segments"
                   /\ UNCHANGED <<headers, log, result>>
    /\ UNCHANGED <<op, entry, call, args, obj_name, content, pos>>

\* A variant of the segment name without zero padding.
segment_name_unpadded(name, seg, width) == name \o <<".">> \o str(seg + 1)

\* The name of the segment with loop index seg.
segment_name(name, seg, width) ==
    name \o <<".">> \o zfill(str(seg + 1), width)

\* A variant of the loop that walks the segments last to first.
range_item_reversed(i, n) == n - 1 - i

\* range(num_segments)[i]: the value of "segment" in iteration i.
range_item(i, n) == i

\* A variant in which a failed segment PUT does not end the loop.
after_segment_put_swallowing(ok) == "continue"

\* What follows a segment PUT: method_put raises on failure and nothing in
\* the loop catches the exception.
after_segment_put(ok) == IF ok THEN "continue" ELSE "raise"

\* One iteration of the segment loop of _upload.
upload_segment ==
    /\ pc = "segments"
    /\ UNCHANGED nonCreateVars
    /\ segment < num_segments
    /\ IF content.kind = "str"
       THEN \* a string has no read()
            /\ pc' = "done"
            /\ result' = Raised("AttributeError", "segments")
            /\ UNCHANGED <<segment, pos, headers, log>>
       ELSE \E ok \in BOOLEAN :
              LET nread == Min(MAX_FILE_SIZE, content.size - pos)
                  st == _store_object(
                            segment_name(Val(obj_name),
                                         range_item(segment, num_segments),
                                         digits),
                            Some(nread), Some("md5"), FALSE, headers, ok)
              IN  /\ pos' = pos + nread
                  /\ headers' = st.headers
                  /\ log' = Append(log, st.request)
                  /\ IF after_segment_put(ok) = "continue"
                     THEN /\ segment' = segment + 1
                          /\ pc' = "segments"
                          /\ UNCHANGED result
                     ELSE /\ pc' = "done"
                          /\ result' = Raised("ClientException", "segments")
                          /\ UNCHANGED segment
    /\ UNCHANGED <<op, entry, call, args, obj_name, content, fsize,
                   num_segments, digits>>

\* A variant of the manifest header value without the trailing dot.
manifest_prefix_undotted(container, name) == container \o <<"/">> \o name

\* "%s/%s." % (self.name, obj_name)
manifest_prefix(container, name) ==
    container \o <<"/">> \o name \o <<".">>

\* The manifest PUT that ends the segmented branch of _upload.
upload_manifest ==
    /\ pc = "segments"
    /\ UNCHANGED nonCreateVars
    /\ segment = num_segments
    /\ \E ok \in BOOLEAN :
         LET h0 == dict_pop(headers, "ETag")
             h1 == dict_set(h0, "X-Object-Manifest",
                            manifest_prefix(ContainerName, Val(obj_name)))
             st == _store_object(Val(obj_name), None, None, FALSE, h1, ok)
         IN  /\ headers' = st.headers
             /\ log' = Append(log, st.request)
             /\ IF ok
                THEN pc' = "uploaded" /\ UNCHANGED result
                ELSE /\ pc' = "done"
                     /\ result' = Raised("ClientException", "manifest")
    /\ UNCHANGED <<op, entry, call, args, obj_name, content, fsize,
                   num_segments, digits, segment, pos>>

\* The end of StorageObjectManager.create: return None or HEAD the object.
create_return ==
    /\ pc = "uploaded"
    /\ UNCHANGED nonCreateVars
    /\ pc' = "done"
    /\ IF args.return_none
       THEN /\ result' = Returned("None")
            /\ UNCHANGED log
       ELSE \E ok \in BOOLEAN :
              /\ log' = Append(log, Request("HEAD", ObjectUri(Val(obj_name)),
                                            None, EmptyDict, ok))
              /\ result' = IF ok THEN Returned("StorageObject")
                           ELSE Raised("NotFound", "get")
    /\ UNCHANGED <<op, entry, call, args, obj_name, content, fsize,
                   num_segments, digits, segment, pos, headers>>

-----------------------------------------------------------------------------
(* Whole and bounded fetch *)

\* The bytes of a stored object of the given size: byte i has value i.
ObjectBytes(size) == [i \in 1..size |-> i]

FetchArgs == [via : {"fetch", "fetch_partial"},
              object_size : 0..MaxFetch,
              size : {None} \cup {Some(n) : n \in 0..MaxFetch}]

\* "bytes=%s-%s" % (first, last)
range_header(first, last) ==
    <<"b", "y", "t", "e", "s", "=">> \o str(first) \o <<"-">> \o str(last)

DigitVal(c) == CHOOSE d \in 0..9 : DigitChars[d + 1] = c

\* The number a decimal string denotes.
RECURSIVE int(_)
int(s) == IF Len(s) = 0 THEN 0
          ELSE int(SubSeq(s, 1, Len(s) - 1)) * 10 + DigitVal(s[Len(s)])

\* The service's answer to a GET: the whole object, or the bytes of the
\* inclusive range first-last, clamped to the end of the object.
service_get(bytes, hdrs) ==
    IF "Range" \notin DOMAIN hdrs THEN bytes
    ELSE LET r == hdrs["Range"]
             dash == CHOOSE i \in 1..Len(r) : r[i] = "-"
             first == int(SubSeq(r, 7, dash - 1))
             last == int(SubSeq(r, dash + 1, Len(r)))
         IN  SubSeq(bytes, first + 1, Min(last + 1, Len(bytes)))

\* The headers of StorageObjectManager.fetch without chunk_size.
fetch_headers(size) ==
    IF size # None /\ Val(size) # 0
    THEN [x \in {"Range"} |-> range_header(0, Val(size))]
    ELSE EmptyDict

\* StorageObjectManager.fetch(obj, size=size) and fetch_partial(obj, size),
\* which calls it: one GET, whose body is returned.
fetch ==
    /\ pc = "idle"
    /\ UNCHANGED nonCreateVars
    /\ \E a \in FetchArgs, ok \in BOOLEAN :
        /\ a.via = "fetch_partial" => a.size # None
        /\ call' = a
        /\ args' = a
        /\ entry' = a.via
        /\ log' = Append(log, Request("GET", ObjectUri(GivenName), None,
                                      fetch_headers(a.size), ok))
        /\ result' = IF ok
                     THEN Returned(service_get(ObjectBytes(a.object_size),
                                               fetch_headers(a.size)))
                     ELSE Raised("ClientException", "fetch")
    /\ op' = "fetch"
    /\ pc' = "done"
    /\ UNCHANGED <<obj_name, content, fsize, num_segments, digits, segment,
                   pos, headers>>

-----------------------------------------------------------------------------
(* Chunked fetch *)

\* The largest chunk_size of a chunked fetch.
MaxChunk == 3

\* obj is a name or a StorageObject; head_size is the size the HEAD reports,
\* actual_size the size of the object when the GETs are served (the object
\* may have been replaced in between).
ChunkArgs == [obj : {"name", "StorageObject"},
              head_size : 0..MaxFetch,
              actual_size : 0..MaxFetch,
              chunk_size : 1..MaxChunk,
              size : {None} \cup {Some(n) : n \in 0..MaxFetch}]

\* "size or obj_size"
size_or(size, obj_size) ==
    IF size # None /\ Val(size) # 0 THEN Val(size) ELSE obj_size

\* StorageObjectManager.fetch with a chunk_size: the size of the object is
\* taken from a HEAD when obj is not a StorageObject; obj_size is assigned
\* in that branch only.  The generator is created but not started.
fetch_chunked ==
    /\ pc = "idle"
    /\ UNCHANGED <<obj_name, content, fsize, num_segments, digits, segment,
                   pos, headers, yielded, syncVars,
                   folderVars,
                   clientVars, otherVars>>
    /\ op' = "fetch_chunked"
    /\ entry' = "fetch"
    /\ \E a \in ChunkArgs :
        /\ call' = a
        /\ args' = a
        /\ IF a.obj = "StorageObject"
           THEN /\ pc' = "done"
                /\ result' = Raised("UnboundLocalError", "fetch")
                /\ UNCHANGED <<log, gen>>
           ELSE \E ok \in BOOLEAN :
                  /\ log' = Append(log, Request("HEAD", ObjectUri(GivenName),
                                                None, EmptyDict, ok))
                  /\ IF ok
                     THEN /\ pc' = "chunker"
                          /\ result' = Returned("generator")
                          /\ gen' = [state |-> "created",
                                     chunk_size |-> a.chunk_size,
                                     size |-> a.size,
                                     obj_size |-> a.head_size]
                     ELSE /\ pc' = "done"
                          /\ result' = Raised("NotFound", "fetch")
                          /\ UNCHANGED gen

\* A variant of the loop exit that ignores an empty response.
chunker_stops_on_total_only(body_len, total_bytes, max_size) ==
    total_bytes >= max_size

\* The two exits of the loop of _fetch_chunker, taken after a yield.
chunker_stops(body_len, total_bytes, max_size) ==
    body_len = 0 \/ total_bytes >= max_size

\* One next() on the generator of _fetch_chunker: the code from the last
\* yield (or from the start) up to the next yield or the end.
chunker_next ==
    /\ pc = "chunker"
    /\ UNCHANGED <<op, entry, call, args, obj_name, content, fsize,
                   num_segments, digits, segment, pos, headers, syncVars,
                   folderVars,
                   clientVars, otherVars>>
    /\ LET started == gen.state = "suspended"
           size == size_or(gen.size, gen.obj_size)
           max_size == IF started THEN gen.max_size
                       ELSE Min(size, gen.obj_size)
           total_bytes == IF started THEN gen.total_bytes + gen.last ELSE 0
           stop == started /\ chunker_stops(gen.last, total_bytes, max_size)
           p == IF started THEN gen.endpos ELSE 0
           endpos == Min(gen.obj_size, p + gen.chunk_size)
           hdrs == [x \in {"Range"} |-> range_header(p, endpos)]
           body == service_get(ObjectBytes(call.actual_size), hdrs)
       IN  IF stop
           THEN /\ gen' = [gen EXCEPT !.state = "finished",
                                      !.total_bytes = total_bytes]
                /\ pc' = "done"
                /\ result' = Returned("StopIteration")
                /\ UNCHANGED <<log, yielded>>
           ELSE \E ok \in BOOLEAN :
                  /\ log' = Append(log, Request("GET", ObjectUri(GivenName),
                                                None, hdrs, ok))
                  /\ IF ok
                     THEN /\ gen' = [state |-> "suspended",
                                     chunk_size |-> gen.chunk_size,
                                     size |-> gen.size,
                                     obj_size |-> gen.obj_size,
                                     max_size |-> max_size,
                                     total_bytes |-> total_bytes,
                                     pos |-> p,
                                     endpos |-> endpos,
                                     last |-> Len(body)]
                          /\ yielded' = Append(yielded, body)
                          /\ UNCHANGED <<pc, result>>
                     ELSE /\ gen' = [gen EXCEPT !.state = "finished"]
                          /\ pc' = "done"
                          /\ result' = Raised("ClientException", "chunker")
                          /\ UNCHANGED yielded

-----------------------------------------------------------------------------
(* The local folder *)

\* Names of files and directories, as character sequences.
NameA == <<"a">>
NameB == <<"b">>
NameD == <<"d">>
NameH == <<".", "h">>
NameG == <<".", "g">>
NameZ == <<"z">>

\* The files a local folder may hold, each as the sequence of the names on
\* its path below the root folder.
FileUniverse == {<<NameA>>, <<NameH>>, <<NameD, NameB>>, <<NameD, NameG, NameA>>}

IsPrefix(p, f) == Len(p) <= Len(f) /\ SubSeq(f, 1, Len(p)) = p

\* os.listdir, os.path.isdir, os.stat(...).st_size on a folder holding the
\* files of tree.
listdir(tree, folder_path) ==
    {f[Len(folder_path) + 1] :
        f \in {g \in tree : Len(g) > Len(folder_path) /\ IsPrefix(folder_path, g)}}
isdir(tree, pth) == \E f \in tree : Len(f) > Len(pth) /\ IsPrefix(pth, f)
st_size(pth) == IF pth[Len(pth)] \in {NameA} THEN 1 ELSE 2

\* utils.get_checksum and os.stat(...).st_mtime of a local file.
get_checksum(pth) == 1
st_mtime(pth) == 2

\* Shell-style matching of a name against one pattern ("*" any run of
\* characters, "?" any one character).
RECURSIVE fnmatch(_, _)
fnmatch(nm, pat) ==
    IF pat = <<>> THEN nm = <<>>
    ELSE IF Head(pat) = "*"
         THEN fnmatch(nm, Tail(pat)) \/ (nm # <<>> /\ fnmatch(Tail(nm), pat))
    ELSE IF Head(pat) = "?"
         THEN nm # <<>> /\ fnmatch(Tail(nm), Tail(pat))
    ELSE nm # <<>> /\ Head(nm) = Head(pat) /\ fnmatch(Tail(nm), Tail(pat))

\* utils.match_pattern: the name matches one of the patterns.
match_pattern(nm, patterns) ==
    \E i \in 1..Len(patterns) : fnmatch(nm, patterns[i])

\* An ignore argument: None, one pattern, or a list of patterns.
IgnoreVals == {[kind |-> "none", val |-> <<>>],
               [kind |-> "str", val |-> NameD],
               [kind |-> "list", val |-> <<<<"*", "a">>>>],
               [kind |-> "list", val |-> <<NameB, NameG>>]}

\* utils.coerce_string_to_list
coerce_string_to_list(x) ==
    CASE x.kind = "none" -> <<>>
      [] x.kind = "str" -> <<x.val>>
      [] x.kind = "list" -> x.val

-----------------------------------------------------------------------------
(* sync_folder_to_container *)

SyncArgs == [tree : SUBSET FileUniverse,
             ignore : IgnoreVals,
             include_hidden : BOOLEAN,
             ignore_timestamps : BOOLEAN,
             delete : BOOLEAN]

\* What a HEAD of an object can find: nothing, or an etag and a
\* last-modified time.
RemoteStates == {None} \cup {Some([etag |-> e, last_modified |-> t]) :
                                e \in 1..2, t \in 1..3}

\* What a listing of the container can return.
Listings == SUBSET {NameA, NameD \o <<"/">> \o NameB, NameZ}

BulkDeleteUri == <<"/", "?", "b", "u", "l", "k", "-", "d", "e", "l", "e",
                   "t", "e", "=", "1">>

\* A variant that leaves hidden names to the caller's patterns.
sync_ignore_without_hidden(ignore, include_hidden) ==
    coerce_string_to_list(ignore)

\* The patterns _sync_folder_to_container matches names against.
sync_ignore(ignore, include_hidden) ==
    coerce_string_to_list(ignore)
        \o (IF ~include_hidden THEN <<<<".", "*">>>> ELSE <<>>)

\* "%s/%s" % (prefix, fname) when there is a prefix.
prefixed(prefix, fname) ==
    IF prefix # <<>> THEN prefix \o <<"/">> \o fname ELSE fname

\* A call of _sync_folder_to_container that has listed its folder.
Frame(tree, folder_path, prefix) ==
    [folder_path |-> folder_path, prefix |-> prefix,
     todo |-> listdir(tree, folder_path)]

\* The requests of upload_file(container, pth, obj_name=fullname,
\* etag=local_etag, return_none=True) for a file of at most MAX_FILE_SIZE
\* bytes and a container given by name: the HEAD of assure_container, the
\* PUT, and the HEAD of the new object (Container.create does not forward
\* return_none).
upload_file_requests(pth, fullname, etag, ok) ==
    <<Request("HEAD", ContainerName, None, EmptyDict, TRUE),
      Request("PUT", ObjectUri(fullname), Some(ObjectBytes(st_size(pth))),
              [x \in {"ETag"} |-> etag], ok)>>
    \o (IF ok THEN <<Request("HEAD", ObjectUri(fullname), None, EmptyDict,
                             TRUE)>>
        ELSE <<>>)

sync_folder_to_container ==
    /\ pc = "idle"
    /\ UNCHANGED <<obj_name, content, fsize, num_segments, digits, segment,
                   pos, headers, log, result, chunkVars, cur, deleter,
                   folderVars,
                   clientVars, otherVars>>
    /\ op' = "sync"
    /\ entry' = "sync_folder_to_container"
    /\ _local_files' = <<>>
    /\ pc' = "sync"
    /\ \E a \in SyncArgs :
        /\ call' = a
        /\ args' = a
        /\ stack' = <<Frame(a.tree, <<>>, <<>>)>>

\* One pass of the loop over fnames.  A HEAD that finds no object raises
\* exc.NoSuchObject, and obj.etag is the etag header of the HEAD.  Neither
\* datetime nor EARLY_DATE_STR is bound in the module, so the comparison of
\* the times raises NameError.
_sync_folder_to_container ==
    /\ pc = "sync"
    /\ stack # <<>>
    /\ UNCHANGED <<op, entry, call, args, obj_name, content, fsize,
                   num_segments, digits, segment, pos, headers, chunkVars,
                   deleter, folderVars,
                   clientVars, otherVars>>
    /\ LET top == stack[Len(stack)]
           ignore == sync_ignore(call.ignore, call.include_hidden)
       IN  \E fname \in top.todo :
             LET rest == [stack EXCEPT ![Len(stack)].todo = @ \ {fname}]
                 pth == Append(top.folder_path, fname)
                 fullname == prefixed(top.prefix, fname)
                 local_etag == get_checksum(pth)
             IN  IF match_pattern(fname, ignore)
                 THEN /\ stack' = rest
                      /\ UNCHANGED <<pc, log, result, _local_files, cur>>
                 ELSE IF isdir(call.tree, pth)
                 THEN /\ stack' = Append(rest, Frame(call.tree, pth, fullname))
                      /\ UNCHANGED <<pc, log, result, _local_files, cur>>
                 ELSE
                   /\ _local_files' = Append(_local_files, fullname)
                   /\ \E remote \in RemoteStates :
                       LET head == Request("HEAD", ObjectUri(fullname), None,
                                           EmptyDict, remote # None)
                           obj_etag == IF remote = None THEN None
                                       ELSE Some(Val(remote).etag)
                           seen(what) == Some([kind |-> "compare",
                                               pth |-> pth,
                                               name |-> fullname,
                                               remote |-> remote,
                                               did |-> what])
                       IN  IF Some(local_etag) = obj_etag
                           THEN /\ log' = Append(log, head)
                                /\ cur' = seen("skip")
                                /\ stack' = rest
                                /\ UNCHANGED <<pc, result>>
                           ELSE IF ~call.ignore_timestamps
                           THEN /\ log' = Append(log, head)
                                /\ cur' = seen("raise")
                                /\ stack' = <<>>
                                /\ pc' = "done"
                                /\ result' = Raised("NameError",
                                                "_sync_folder_to_container")
                           ELSE \E ok \in BOOLEAN :
                                /\ log' = Append(log, head)
                                          \o upload_file_requests(pth,
                                               fullname, local_etag, ok)
                                /\ cur' = seen("upload")
                                /\ IF ok
                                   THEN /\ stack' = rest
                                        /\ UNCHANGED <<pc, result>>
                                   ELSE /\ stack' = <<>>
                                        /\ pc' = "done"
                                        /\ result' = Raised("ClientException",
                                                            "upload_file")

\* The end of the loop of one call: a nested call returns into its caller;
\* the outermost one ("not prefix") runs _delete_objects_not_in_list when
\* delete is set, which looks the container up, lists it and starts one
\* BulkDeleter on the names that are not in _local_files.
sync_return ==
    /\ pc = "sync"
    /\ stack # <<>>
    /\ stack[Len(stack)].todo = {}
    /\ UNCHANGED <<op, entry, call, args, obj_name, content, fsize,
                   num_segments, digits, segment, pos, headers, chunkVars,
                   _local_files, folderVars,
                   clientVars, otherVars>>
    /\ stack' = SubSeq(stack, 1, Len(stack) - 1)
    /\ IF Len(stack) > 1
       THEN UNCHANGED <<pc, log, result, cur, deleter>>
       ELSE /\ pc' = "done"
            /\ IF ~call.delete
               THEN /\ result' = Returned("None")
                    /\ UNCHANGED <<log, cur, deleter>>
               ELSE \E ok \in BOOLEAN, objnames \in Listings :
                      IF ~ok
                      THEN /\ log' = Append(log, Request("HEAD",
                                        ContainerName, None, EmptyDict, FALSE))
                           /\ result' = Raised("NoSuchContainer",
                                               "_delete_objects_not_in_list")
                           /\ UNCHANGED <<cur, deleter>>
                      ELSE /\ log' = log \o
                                <<Request("HEAD", ContainerName, None,
                                          EmptyDict, TRUE),
                                  Request("GET", ContainerName, None,
                                          EmptyDict, TRUE)>>
                           /\ cur' = Some([kind |-> "listing",
                                           objnames |-> objnames])
                           /\ deleter' =
                                [state |-> "started",
                                 object_names |-> objnames \
                                    {_local_files[i] :
                                        i \in 1..Len(_local_files)},
                                 results |-> None,
                                 completed |-> FALSE]
                           /\ result' = Returned("None")

-----------------------------------------------------------------------------
(* BulkDeleter *)

\* BulkDeleter.run up to the response of the one batched DELETE; a failed
\* request ends the thread with the exception.
BulkDeleter_run ==
    /\ deleter.state = "started"
    /\ UNCHANGED <<pc, op, entry, call, args, obj_name, content, fsize,
                   num_segments, digits, segment, pos, headers, result,
                   chunkVars, _local_files, stack, cur, folderVars,
                   clientVars, otherVars>>
    /\ \E ok \in BOOLEAN :
        /\ log' = Append(log, Request("DELETE", BulkDeleteUri,
                     Some({ObjectUri(nm) : nm \in deleter.object_names}),
                     EmptyDict, ok))
        /\ deleter' = [deleter EXCEPT
                         !.state = IF ok THEN "responded" ELSE "raised"]

\* The body the service answers the batched DELETE of the thread with.
resp_body(d) ==
    [status |-> "200 OK", deleted |-> Cardinality(d.object_names)]

\* A variant that leaves results as the class defines it.
set_results_skipped(d) == [d EXCEPT !.state = "results"]

\* self.results = resp_body
set_results(d) ==
    [d EXCEPT !.state = "results", !.results = Some(resp_body(d))]

BulkDeleter_results ==
    /\ deleter.state = "responded"
    /\ UNCHANGED <<createVars, chunkVars, _local_files, stack, cur,
                   folderVars,
                   clientVars, otherVars>>
    /\ deleter' = set_results(deleter)

\* self.completed = True
BulkDeleter_completed ==
    /\ deleter.state = "results"
    /\ UNCHANGED <<createVars, chunkVars, _local_files, stack, cur,
                   folderVars,
                   clientVars, otherVars>>
    /\ deleter' = [deleter EXCEPT !.state = "finished", !.completed = TRUE]

\* The arguments of a bulk_delete call.
BulkArgs == [object_names : SUBSET {NameA, NameZ}, async : BOOLEAN]

\* bulk_delete: constructs a BulkDeleter and starts it; with async the
\* thread is returned, otherwise the caller polls completed.
bulk_delete ==
    /\ pc = "idle"
    /\ UNCHANGED <<obj_name, content, fsize, num_segments, digits, segment,
                   pos, headers, log, chunkVars, _local_files, stack, cur,
                   folderVars,
                   clientVars, otherVars>>
    /\ op' = "bulk_delete"
    /\ entry' = "bulk_delete"
    /\ \E a \in BulkArgs :
        /\ call' = a
        /\ args' = a
        /\ deleter' = [NoDeleter EXCEPT !.state = "started",
                                        !.object_names = a.object_names]
        /\ IF a.async
           THEN pc' = "done" /\ result' = Returned("deleter")
           ELSE pc' = "polling" /\ UNCHANGED result

\* The poll loop of the synchronous bulk_delete leaving when it reads
\* completed as True, and returning deleter.results; while completed is
\* False the caller sleeps and polls again.
bulk_delete_return ==
    /\ pc = "polling"
    /\ deleter.completed
    /\ UNCHANGED <<op, entry, call, args, obj_name, content, fsize,
                   num_segments, digits, segment, pos, headers, log,
                   chunkVars, syncVars, folderVars,
                   clientVars, otherVars>>
    /\ pc' = "done"
    /\ result' = Returned(IF deleter.results = None THEN "None"
                          ELSE "results")

-----------------------------------------------------------------------------
(* upload_folder and FolderUploader *)

\* The calls of cancel_folder_upload one behaviour makes at most.
MaxCancels == 1

\* The key upload_folder issues, and a key it never issued.
IssuedKey == "k1"
UnknownKey == "k0"
Keys == {IssuedKey, UnknownKey}

\* The folder_path of the call.
RootFolder == <<"/", "r">>

FolderIgnoreVals == IgnoreVals \cup {[kind |-> "str", val |-> <<"*", "d">>]}

FolderArgs == [tree : SUBSET FileUniverse,
               ignore : FolderIgnoreVals,
               is_dir : BOOLEAN]

\* os.path.join of the names of a path.
RECURSIVE Join(_)
Join(path) ==
    IF Len(path) = 1 THEN path[1]
    ELSE path[1] \o <<"/">> \o Join(Tail(path))

\* The dirname os.path.walk hands to its callback for the directory at rel
\* below the root folder.
dirname(rel) ==
    IF rel = <<>> THEN RootFolder ELSE RootFolder \o <<"/">> \o Join(rel)

RECURSIVE SumSizes(_)
SumSizes(files) ==
    IF files = {} THEN 0
    ELSE LET f == CHOOSE x \in files : TRUE
         IN  st_size(f) + SumSizes(files \ {f})

\* utils.folder_size: the bytes of the files below the folder none of whose
\* path components matches an ignore pattern.
folder_size(tree, ignore) ==
    SumSizes({f \in tree :
                \A i \in 1..Len(f) : ~match_pattern(f[i], ignore)})

\* upload_folder: registers the status of the upload under a fresh key,
\* constructs the FolderUploader, which creates the container, and starts
\* it.
upload_folder ==
    /\ pc = "idle"
    /\ UNCHANGED <<obj_name, content, fsize, num_segments, digits, segment,
                   pos, headers, chunkVars, syncVars, clientVars, otherVars, cancels>>
    /\ op' = "upload_folder"
    /\ entry' = "upload_folder"
    /\ pc' = "done"
    /\ \E a \in FolderArgs :
        /\ call' = a
        /\ args' = a
        /\ IF ~a.is_dir
           THEN /\ result' = Raised("FolderNotFound", "upload_folder")
                /\ UNCHANGED <<log, folder_upload_status, uploader>>
           ELSE LET ignore == coerce_string_to_list(a.ignore)
                    total_bytes == folder_size(a.tree, ignore)
                IN  /\ folder_upload_status' =
                          dict_set(folder_upload_status, IssuedKey,
                                   [continue |-> TRUE,
                                    total_bytes |-> total_bytes,
                                    uploaded |-> 0])
                    /\ \E ok \in BOOLEAN :
                        /\ log' = Append(log, Request("PUT", ContainerName,
                                                None, EmptyDict, ok))
                        /\ IF ok
                           THEN /\ uploader' = [NoUploader EXCEPT
                                                  !.state = "started"]
                                /\ result' = Returned("upload_key")
                           ELSE /\ result' = Raised("ClientException",
                                                "FolderUploader.__init__")
                                /\ UNCHANGED uploader

\* os.path.walk reaching the directory at rel: it lists the directory and
\* calls upload_files_in_folder, which returns at once when dirname matches
\* an ignore pattern; the directories of the listing are walked afterwards
\* whatever the callback returned.
walk_frame(tree, ignore, rel) ==
    [rel |-> rel,
     fnames |-> IF match_pattern(dirname(rel), ignore) THEN {}
                ELSE listdir(tree, rel),
     subdirs |-> {nm \in listdir(tree, rel) : isdir(tree, Append(rel, nm))}]

\* FolderUploader.run up to the first callback of os.path.walk.
FolderUploader_run ==
    /\ uploader.state = "started"
    /\ UNCHANGED <<createVars, chunkVars, syncVars, clientVars, otherVars, folder_upload_status,
                   cancels>>
    /\ uploader' = [uploader EXCEPT
                      !.state = "running",
                      !.stack = <<walk_frame(call.tree,
                                    coerce_string_to_list(call.ignore), <<>>)>>]

\* A variant that never reports the cancellation.
_should_abort_folder_upload_never(status, upload_key) == FALSE

_should_abort_folder_upload(status, upload_key) ==
    ~status[upload_key].continue

\* upload_files_in_folder taking the next name of its listing, up to the
\* call of upload_file.
upload_files_in_folder ==
    /\ uploader.state = "running"
    /\ uploader.phase = "check"
    /\ UNCHANGED <<createVars, chunkVars, syncVars, clientVars, otherVars, folder_upload_status,
                   cancels>>
    /\ LET n == Len(uploader.stack)
           top == uploader.stack[n]
           ignore == coerce_string_to_list(call.ignore)
       IN  \E fname \in top.fnames :
             LET full_path == Append(top.rel, fname)
                 rest == top.fnames \ {fname}
             IN  IF match_pattern(fname, ignore)
                 THEN uploader' = [uploader EXCEPT !.stack[n].fnames = rest]
                 ELSE IF _should_abort_folder_upload(folder_upload_status,
                                                     IssuedKey)
                 THEN uploader' = [uploader EXCEPT !.stack[n].fnames = {}]
                 ELSE IF isdir(call.tree, full_path)
                 THEN uploader' = [uploader EXCEPT !.stack[n].fnames = rest]
                 ELSE uploader' = [uploader EXCEPT
                                     !.stack[n].fnames = rest,
                                     !.phase = "upload",
                                     !.file = full_path,
                                     !.obj_size = st_size(full_path)]

\* The upload_file call of upload_files_in_folder: the container is a
\* Container, so the requests are the PUT and, return_none being dropped by
\* Container.create, the HEAD of the new object.  A failed PUT ends the
\* thread with the exception.
FolderUploader_upload_file ==
    /\ uploader.state = "running"
    /\ uploader.phase = "upload"
    /\ UNCHANGED <<pc, op, entry, call, args, obj_name, content, fsize,
                   num_segments, digits, segment, pos, headers, result,
                   chunkVars, syncVars, clientVars, otherVars, folder_upload_status, cancels>>
    /\ \E ok \in BOOLEAN :
        LET obj == ObjectUri(Join(uploader.file))
            put == Request("PUT", obj,
                           Some(ObjectBytes(st_size(uploader.file))),
                           [x \in {"ETag"} |-> get_checksum(uploader.file)],
                           ok)
        IN  IF ok
            THEN /\ log' = log \o <<put, Request("HEAD", obj, None,
                                                 EmptyDict, TRUE)>>
                 /\ uploader' = [uploader EXCEPT !.phase = "progress"]
            ELSE /\ log' = Append(log, put)
                 /\ uploader' = [uploader EXCEPT !.state = "raised"]

\* self.client._update_progress(self.upload_key, obj_size)
_update_progress ==
    /\ uploader.state = "running"
    /\ uploader.phase = "progress"
    /\ UNCHANGED <<createVars, chunkVars, syncVars, clientVars, otherVars, cancels>>
    /\ folder_upload_status' =
          [folder_upload_status EXCEPT
              ![IssuedKey].uploaded = @ + uploader.obj_size]
    /\ uploader' = [uploader EXCEPT !.phase = "check"]

\* os.path.walk after a callback has returned: it walks the next directory
\* of the listing, or returns to the walk of the parent; the thread ends
\* with the walk of the root folder.
os_path_walk ==
    /\ uploader.state = "running"
    /\ uploader.phase = "check"
    /\ uploader.stack[Len(uploader.stack)].fnames = {}
    /\ UNCHANGED <<createVars, chunkVars, syncVars, clientVars, otherVars, folder_upload_status,
                   cancels>>
    /\ LET n == Len(uploader.stack)
           top == uploader.stack[n]
       IN  IF top.subdirs # {}
           THEN \E nm \in top.subdirs :
                  uploader' = [uploader EXCEPT
                      !.stack = Append(
                          [uploader.stack EXCEPT ![n].subdirs = @ \ {nm}],
                          walk_frame(call.tree,
                                     coerce_string_to_list(call.ignore),
                                     Append(top.rel, nm)))]
           ELSE uploader' = [uploader EXCEPT
                      !.stack = SubSeq(uploader.stack, 1, n - 1),
                      !.state = IF n = 1 THEN "finished" ELSE "running"]

\* The files whose PUT has succeeded.
UploadedFiles ==
    {SubSeq(log[i].name, Len(ContainerName) + 2, Len(log[i].name)) :
        i \in {j \in 1..Len(log) :
                 /\ log[j].method = "PUT"
                 /\ log[j].ok
                 /\ Len(log[j].name) > Len(ContainerName) + 1}}

\* cancel_folder_upload called from the caller's thread: _valid_upload_key
\* raises InvalidUploadID for a key that is not in folder_upload_status.
cancel_folder_upload ==
    /\ pc \in {"idle", "done"}
    /\ op \in {"none", "upload_folder"}
    /\ Len(cancels) < MaxCancels
    /\ UNCHANGED <<createVars, chunkVars, syncVars, clientVars, otherVars, uploader>>
    /\ \E upload_key \in Keys :
        LET known == upload_key \in DOMAIN folder_upload_status
            after == IF known
                     THEN [folder_upload_status EXCEPT
                              ![upload_key].continue = FALSE]
                     ELSE folder_upload_status
        IN  /\ folder_upload_status' = after
            /\ cancels' = Append(cancels,
                  [upload_key |-> upload_key,
                   raised |-> ~known,
                   worker |-> uploader.state,
                   uploaded_files |-> UploadedFiles,
                   in_flight |-> IF uploader.state = "running"
                                    /\ uploader.phase = "upload"
                                 THEN {Join(uploader.file)} ELSE {},
                   before |-> folder_upload_status,
                   after |-> after])

-----------------------------------------------------------------------------
(* move_object *)

NewContainerName == <<"t">>
NewName == <<"n">>

Uri(container, name) == container \o <<"/">> \o name

MoveArgs == [new_obj_name : {None, Some(NewName)},
             new_reference : BOOLEAN,
             content_type : {None, Some("text/plain")}]

\* The etags the service can answer the copy with.
CopyEtags == {"e1", "e2"}

\* The headers of the PUT of ContainerManager.copy_object.
copy_headers(content_type) ==
    LET h == [x \in {"X-Copy-From", "Content-Length"} |->
                IF x = "X-Copy-From"
                THEN <<"/">> \o Uri(ContainerName, GivenName)
                ELSE <<"0">>]
    IN  IF content_type # None
        THEN dict_set(h, "Content-Type", Val(content_type))
        ELSE h

\* What ContainerManager.copy_object returns for a PUT answered with the
\* given etag: the function ends after the PUT without a return statement.
ContainerManager_copy_object(etag) == None

\* move_object: the copy, the deletion of the original when the copy
\* returned something true, and the HEAD of the new object when a new
\* reference is asked for.
move_object ==
    /\ pc = "idle"
    /\ UNCHANGED <<obj_name, content, fsize, num_segments, digits, segment,
                   pos, headers, nonCreateVars>>
    /\ op' = "move_object"
    /\ entry' = "move_object"
    /\ pc' = "done"
    /\ \E a \in MoveArgs, etag \in CopyEtags, ok \in BOOLEAN :
        LET nm == IF a.new_obj_name # None THEN Val(a.new_obj_name)
                  ELSE GivenName
            put == Request("PUT", Uri(NewContainerName, nm), None,
                           copy_headers(a.content_type), ok)
            new_obj_etag == ContainerManager_copy_object(etag)
            delete == IF new_obj_etag # None
                      THEN <<Request("HEAD", ContainerName, None, EmptyDict,
                                     TRUE),
                             Request("DELETE", ObjectUri(GivenName), None,
                                     EmptyDict, TRUE)>>
                      ELSE <<>>
            get == IF a.new_reference
                   THEN <<Request("HEAD", Uri(NewContainerName, nm), None,
                                  EmptyDict, TRUE)>>
                   ELSE <<>>
        IN  /\ call' = a
            /\ args' = a
            /\ IF ~ok
               THEN /\ log' = Append(log, put)
                    /\ result' = Raised("ClientException", "copy_object")
               ELSE /\ log' = Append(log, put) \o delete \o get
                    /\ result' = Returned(IF a.new_reference
                                          THEN "StorageObject"
                                          ELSE IF new_obj_etag = None
                                          THEN "None" ELSE "etag")

-----------------------------------------------------------------------------
(* Temporary URLs *)

\* The longest life of a temporary URL, in seconds.
MaxSeconds == 2

LowerChars == <<"a", "b", "c", "d", "e", "f", "g", "h", "i", "j", "k", "l",
                "m", "n", "o", "p", "q", "r", "s", "t", "u", "v", "w", "x",
                "y", "z">>
UpperChars == <<"A", "B", "C", "D", "E", "F", "G", "H", "I", "J", "K", "L",
                "M", "N", "O", "P", "Q", "R", "S", "T", "U", "V", "W", "X",
                "Y", "Z">>

\* method.upper()
upper(s) ==
    [i \in 1..Len(s) |->
        IF \E k \in 1..26 : LowerChars[k] = s[i]
        THEN UpperChars[CHOOSE k \in 1..26 : LowerChars[k] = s[i]]
        ELSE s[i]]

\* s.strip()
RECURSIVE strip(_)
strip(s) ==
    IF s = <<>> THEN s
    ELSE IF Head(s) = " " THEN strip(Tail(s))
    ELSE IF s[Len(s)] = " " THEN strip(SubSeq(s, 1, Len(s) - 1))
    ELSE s

MethodVals == {<<"G", "E", "T">>, <<"g", "e", "t">>,
               <<" ", "p", "u", "t", " ">>, <<"P", "u", "t">>,
               <<"P", "O", "S", "T">>, <<"G", " ", "E", "T">>,
               <<"d", "e", "l", "e", "t", "e">>, <<>>}

\* A temp-URL key: None, the empty string, or a key.
KeyVals == {None, Some(""), Some("k")}

\* "not key"
no_key(key) == key = None \/ Val(key) = ""

\* now is time.time() in tenths of a second.
TempUrlArgs == [method : MethodVals,
                key : KeyVals,
                cached : BOOLEAN,
                seconds : 0..MaxSeconds,
                now : {10, 15, 19}]

AccountUri == <<"/">>

\* set_temp_url_key: stores the key in the account metadata and caches it.
set_temp_url_key ==
    /\ pc = "idle"
    /\ no_key(_cached_temp_url_key)
    /\ log = <<>>
    /\ UNCHANGED <<pc, op, entry, call, args, obj_name, content, fsize,
                   num_segments, digits, segment, pos, headers, result,
                   chunkVars, syncVars, folderVars, temp_url, otherVars>>
    /\ \E key \in {"k", "c"} :
        /\ log' = Append(log, Request("POST", AccountUri, None,
                                      [x \in {"Temp-Url-Key"} |-> key], TRUE))
        /\ _cached_temp_url_key' = Some(key)

\* int(time.time() + int(seconds))
expires_at(now, seconds) == (now + 10 * seconds) \div 10

\* StorageClient.get_temp_url: a missing key is looked up, in the cache or
\* with a HEAD of the account, before ContainerManager.get_temp_url checks
\* the method and signs the path.
get_temp_url ==
    /\ pc = "idle"
    /\ UNCHANGED <<obj_name, content, fsize, num_segments, digits, segment,
                   pos, headers, chunkVars, syncVars, folderVars,
                   otherVars>>
    /\ op' = "get_temp_url"
    /\ entry' = "get_temp_url"
    /\ pc' = "done"
    /\ \E a \in TempUrlArgs, account \in {None, Some("k")}, ok \in BOOLEAN :
        LET lookup == no_key(a.key)
            fetched == lookup /\ (~a.cached \/ no_key(_cached_temp_url_key))
            key == IF ~lookup THEN a.key
                   ELSE IF fetched THEN account
                   ELSE _cached_temp_url_key
            mod_method == strip(upper(a.method))
            expires == expires_at(a.now, a.seconds)
            pth == <<"/", "v", "1", "/">> \o Uri(ContainerName, GivenName)
        IN  /\ call' = a
            /\ args' = a
            /\ log' = IF fetched
                      THEN Append(log, Request("HEAD", AccountUri, None,
                                               EmptyDict, ok))
                      ELSE log
            /\ IF fetched /\ ~ok
               THEN /\ result' = Raised("ClientException",
                                        "get_account_metadata")
                    /\ UNCHANGED clientVars
               ELSE /\ _cached_temp_url_key' =
                          IF fetched THEN account ELSE _cached_temp_url_key
                    /\ IF no_key(key)
                       THEN /\ result' = Raised("MissingTemporaryURLKey",
                                                "get_temp_url")
                            /\ UNCHANGED temp_url
                       ELSE IF mod_method \notin {<<"G", "E", "T">>,
                                                  <<"P", "U", "T">>}
                       THEN /\ result' = Raised("InvalidTemporaryURLMethod",
                                                "get_temp_url")
                            /\ UNCHANGED temp_url
                       ELSE /\ result' = Returned("temp_url")
                            /\ temp_url' =
                                 Some([pth |-> pth,
                                       temp_url_sig |->
                                          [key |-> Val(key),
                                           hmac_body |-> <<mod_method,
                                                str(expires), pth>>],
                                       temp_url_expires |-> str(expires)])

-----------------------------------------------------------------------------
(* A second sync_folder_to_container on the same client *)

\* The second call is sync_folder_to_container(folder, 't', delete=True,
\* ignore_timestamps=True), made from another thread while a first call
\* with delete=True, ignore_timestamps=True and no other option is walking.  Its folder is
\* flat and holds one of these files, whose object exists in 't' with the
\* etag of the file.  It runs the same code on the same self._local_files.
OtherTrees == {{NameA}, {NameZ}}
OtherListings == {{}, {NameA, NameZ}}

\* sync_folder_to_container of the second call: self._local_files = [].
other_sync_folder_to_container ==
    /\ op = "sync"
    /\ pc = "sync"
    /\ call.delete
    /\ call.ignore.kind = "none"
    /\ call.ignore_timestamps
    /\ ~call.include_hidden
    /\ other.state = "none"
    /\ UNCHANGED <<createVars, chunkVars, stack, cur, deleter, folderVars,
                   clientVars>>
    /\ _local_files' = <<>>
    /\ \E tree \in OtherTrees :
        other' = [NoOther EXCEPT !.state = "walking", !.todo = tree]

\* One pass of the loop of the second call over a file.
other_sync_file ==
    /\ other.state = "walking"
    /\ UNCHANGED <<pc, op, entry, call, args, obj_name, content, fsize,
                   num_segments, digits, segment, pos, headers, result,
                   chunkVars, stack, cur, deleter, folderVars, clientVars>>
    /\ \E fname \in other.todo :
        /\ _local_files' = Append(_local_files, fname)
        /\ other' = [other EXCEPT !.todo = @ \ {fname},
                                  !.visited = @ \cup {fname}]
        /\ log' = Append(log, Request("HEAD", Uri(NewContainerName, fname),
                                      None, EmptyDict, TRUE))

\* The end of the loop of the second call: _delete_objects_not_in_list
\* lists 't' and hands the names that are not in self._local_files to a
\* BulkDeleter of its own.
other_sync_return ==
    /\ other.state = "walking"
    /\ other.todo = {}
    /\ UNCHANGED <<pc, op, entry, call, args, obj_name, content, fsize,
                   num_segments, digits, segment, pos, headers, result,
                   chunkVars, syncVars, folderVars, clientVars>>
    /\ \E objnames \in OtherListings :
        /\ log' = log \o <<Request("HEAD", NewContainerName, None,
                                   EmptyDict, TRUE),
                           Request("GET", NewContainerName, None,
                                   EmptyDict, TRUE)>>
        /\ other' = [other EXCEPT
                        !.state = "done",
                        !.objnames = objnames,
                        !.object_names = objnames \
                            {_local_files[i] : i \in 1..Len(_local_files)}]

-----------------------------------------------------------------------------
(* Specification *)

Next ==
    \/ Call
    \/ assure_container
    \/ create
    \/ _upload
    \/ upload_segment
    \/ upload_manifest
    \/ create_return
    \/ fetch
    \/ fetch_chunked
    \/ chunker_next
    \/ move_object

Spec == Init /\ [][Next]_vars

\* Folder sync and the bulk deletion it starts.
NextSync ==
    \/ sync_folder_to_container
    \/ _sync_folder_to_container
    \/ sync_return
    \/ BulkDeleter_run
    \/ BulkDeleter_results
    \/ BulkDeleter_completed
    \/ bulk_delete
    \/ bulk_delete_return

SpecSync == Init /\ [][NextSync]_vars

\* Folder upload: the caller's thread and the FolderUploader thread.
NextFolder ==
    \/ upload_folder
    \/ cancel_folder_upload
    \/ FolderUploader_run
    \/ upload_files_in_folder
    \/ FolderUploader_upload_file
    \/ _update_progress
    \/ os_path_walk

SpecFolder == Init /\ [][NextFolder]_vars

\* Two folder syncs at once on one client.
NextSync2 ==
    \/ sync_folder_to_container
    \/ _sync_folder_to_container
    \/ sync_return
    \/ other_sync_folder_to_container
    \/ other_sync_file
    \/ other_sync_return

SpecSync2 == Init /\ [][NextSync2]_vars

\* Temporary URLs.
NextTempUrl ==
    \/ set_temp_url_key
    \/ get_temp_url

SpecTempUrl == Init /\ [][NextTempUrl]_vars

-----------------------------------------------------------------------------
(* Vocabulary of the properties *)

\* The PUT requests issued so far, in order.
Puts == SelectSeq(log, LAMBDA r : r.method = "PUT")

\* _upload has run and StorageObjectManager.create has not been cut short
\* before it.
UploadRan ==
    /\ op = "create"
    /\ \/ pc \in {"segments", "uploaded"}
       \/ pc = "done" /\ result.at \in {"upload", "segments", "manifest",
                                        "get", "done"}

\* The upload has ended: _upload returned or raised.
UploadEnded ==
    /\ op = "create"
    /\ \/ pc = "uploaded"
       \/ pc = "done" /\ result.at \in {"upload", "segments", "manifest",
                                        "get", "done"}

\* _upload returned normally.
UploadSucceeded ==
    /\ op = "create"
    /\ \/ pc = "uploaded"
       \/ pc = "done" /\ result.at \in {"get", "done"}

\* The upload took the segmented branch.
Segmented == UploadRan /\ num_segments > 0

\* The least k with k * unit >= n.
CeilOf(n, unit) == CHOOSE k \in 0..n : k * unit >= n /\ (k - 1) * unit < n

RECURSIVE Pow10(_)
Pow10(w) == IF w = 0 THEN 1 ELSE 10 * Pow10(w - 1)

\* The number of decimal digits of k >= 1.
DecimalDigits(k) == CHOOSE w \in 1..10 : Pow10(w - 1) <= k /\ k < Pow10(w)

\* Character codes (ASCII) of the characters that occur in names.
Ord(c) ==
    CASE c = "." -> 46
      [] c = "/" -> 47
      [] c \in {DigitChars[i] : i \in 1..10} -> 48 + DigitVal(c)
      [] c = "c" -> 99
      [] c = "f" -> 102
      [] c = "o" -> 111

\* a < b as strings.
StrLess(a, b) ==
    \E i \in 1..(Min(Len(a), Len(b)) + 1) :
        /\ \A j \in 1..(i - 1) : a[j] = b[j]
        /\ IF i > Len(a) THEN i <= Len(b)
           ELSE i <= Len(b) /\ Ord(a[i]) < Ord(b[i])

\* The part of a request's name after "<container>/<obj_name>.", when the
\* name has that form.
SegmentPrefix == ObjectUri(Val(obj_name)) \o <<".">>
HasSegmentName(r) ==
    /\ Len(r.name) > Len(SegmentPrefix)
    /\ SubSeq(r.name, 1, Len(SegmentPrefix)) = SegmentPrefix
    /\ \A i \in (Len(SegmentPrefix) + 1)..Len(r.name) :
           r.name[i] \in {DigitChars[d] : d \in 1..10}
Suffix(r) == SubSeq(r.name, Len(SegmentPrefix) + 1, Len(r.name))

-----------------------------------------------------------------------------
(* Properties *)

\* C1: a non-chunked upload whose resolved size fsize is > 0 and none of
\* whose PUTs failed has issued, when it ends, ceil(fsize / MAX_FILE_SIZE)
\* segment PUTs plus one manifest PUT if fsize > MAX_FILE_SIZE, and exactly
\* one PUT otherwise.
C1_PutCount ==
    (/\ UploadEnded
     /\ ~args.chunked
     /\ fsize # None /\ Val(fsize) > 0
     /\ \A i \in DOMAIN Puts : Puts[i].ok)
    => Len(Puts) = IF Val(fsize) > MAX_FILE_SIZE
                   THEN CeilOf(Val(fsize), MAX_FILE_SIZE) + 1
                   ELSE 1

\* C2: in a segmented upload with k segments the i-th segment PUT targets
\* name + "." + the decimal numeral of i, zero-padded to the number of
\* decimal digits of k; the names are pairwise ordered as strings the way
\* their indices are ordered; and once the upload has succeeded the segment
\* PUTs are exactly those of 1..k.
C2_SegmentNames ==
    Segmented =>
        LET n == Min(Len(Puts), num_segments)
        IN  /\ \A i \in 1..n :
                  /\ HasSegmentName(Puts[i])
                  /\ Len(Suffix(Puts[i])) = DecimalDigits(num_segments)
                  /\ int(Suffix(Puts[i])) = i
            /\ \A i, j \in 1..n :
                  i < j => StrLess(Puts[i].name, Puts[j].name)
            /\ UploadSucceeded => n = num_segments

\* A succeeded upload of at least ten segments, so that padding matters.
C2_Witness ==
    /\ Segmented
    /\ UploadSucceeded
    /\ num_segments >= 10
    /\ Len(Puts) = num_segments + 1

\* C3: in a segmented upload the segment PUTs appear in increasing index
\* order, nothing follows a manifest PUT among the PUTs, and a manifest
\* PUT is preceded by one successful PUT for every segment 1..k.
C3_SegmentsThenManifest ==
    Segmented =>
        /\ \A i, j \in DOMAIN Puts :
              (i < j /\ HasSegmentName(Puts[i]) /\ HasSegmentName(Puts[j]))
              => int(Suffix(Puts[i])) < int(Suffix(Puts[j]))
        /\ \A m \in DOMAIN Puts :
              Puts[m].name = ObjectUri(Val(obj_name))
              => /\ m = Len(Puts)
                 /\ \A j \in 1..(m - 1) :
                        Puts[j].ok /\ HasSegmentName(Puts[j])
                 /\ {int(Suffix(Puts[j])) : j \in 1..(m - 1)}
                        = 1..num_segments

\* A segmented upload of several segments whose manifest has been PUT.
C3_Witness ==
    /\ Segmented
    /\ num_segments >= 3
    /\ Len(Puts) = num_segments + 1
    /\ Puts[Len(Puts)].name = ObjectUri(Val(obj_name))

\* C4: the PUT that follows the k segment PUTs of a segmented upload targets
\* the object's own name, has no body, carries X-Object-Manifest =
\* "<container>/<name>." and carries no ETag header.
C4_ManifestPut ==
    (Segmented /\ Len(Puts) > num_segments) =>
        LET m == Puts[num_segments + 1]
        IN  /\ m.name = ContainerName \o <<"/">> \o Val(obj_name)
            /\ m.body = None
            /\ "X-Object-Manifest" \in DOMAIN m.headers
            /\ m.headers["X-Object-Manifest"]
                   = ContainerName \o <<"/">> \o Val(obj_name) \o <<".">>
            /\ "ETag" \notin DOMAIN m.headers

\* A manifest PUT of an upload to which the caller passed an etag and whose
\* last segment PUT carried an ETag header.
C4_Witness ==
    /\ Segmented
    /\ Len(Puts) > num_segments
    /\ args.etag = Some("caller")
    /\ "ETag" \in DOMAIN Puts[num_segments].headers

\* C5: a failed segment PUT is the last request of the upload: no later
\* segment PUT, no manifest PUT and no DELETE is issued, and the call has
\* ended by raising.
C5_SegmentFailureAborts ==
    Segmented =>
        \A i \in DOMAIN log :
            (log[i].method = "PUT" /\ ~log[i].ok)
            => /\ i = Len(log)
               /\ pc = "done"
               /\ result.kind = "raised"
               /\ \A j \in DOMAIN log : log[j].method # "DELETE"

\* The PUT of a segment other than the first has failed.
C5_Witness ==
    /\ Segmented
    /\ Len(Puts) >= 2
    /\ Len(Puts) <= num_segments
    /\ ~Puts[Len(Puts)].ok
    /\ \A j \in 1..(Len(Puts) - 1) : Puts[j].ok

\* C6: every PUT issued by an upload carries a body of at most
\* MAX_FILE_SIZE bytes.
C6_BodyAtMostMax ==
    \A i \in DOMAIN Puts :
        Puts[i].body # None => Val(Puts[i].body) <= MAX_FILE_SIZE

\* C7: when a data stream has been uploaded with chunked=True, exactly one
\* PUT has been issued, with Transfer-Encoding: chunked and without an ETag
\* header.
C7_ChunkedSinglePutNoEtag ==
    (UploadEnded /\ args.chunked /\ content.kind = "stream")
    => /\ Len(Puts) = 1
       /\ dict_get(Puts[1].headers, "Transfer-Encoding") = "chunked"
       /\ "ETag" \notin DOMAIN Puts[1].headers

\* The HEAD requests for the object that follow the last PUT.
HeadsAfterPuts ==
    {i \in DOMAIN log :
        /\ log[i].method = "HEAD"
        /\ log[i].name = ObjectUri(Val(obj_name))
        /\ \A j \in DOMAIN log : log[j].method = "PUT" => j < i}

\* C8: after a successful upload through create_object, upload_file,
\* store_object or Container.create, exactly one HEAD of the object has been
\* issued, unless the caller passed return_none=True, in which case no HEAD
\* follows the PUTs and None is returned.
C8_HeadUnlessReturnNone ==
    (/\ op = "create"
     /\ entry # "StorageObjectManager.create"
     /\ pc = "done"
     /\ result.at \in {"get", "done"})
    => IF call.return_none
       THEN HeadsAfterPuts = {} /\ result = Returned("None")
       ELSE Cardinality(HeadsAfterPuts) = 1

\* C9: a create call with neither data nor file_or_path ends with
\* NoContentSpecified, one with data but no obj_name with MissingName, one
\* with a path that does not exist with FileNotFound, and in each case no
\* HTTP request has been issued.
C9_ValidationBeforeRequests ==
    (op = "create" /\ pc = "done")
    => /\ (call.data = NoSource /\ call.file_or_path = NoSource)
          => (result.what = "NoContentSpecified" /\ log = <<>>)
       /\ (call.data # NoSource /\ call.obj_name = None)
          => (result.what = "MissingName" /\ log = <<>>)
       /\ (call.data = NoSource /\ call.file_or_path.kind = "missing_path")
          => (result.what = "FileNotFound" /\ log = <<>>)

\* C10: fetch(obj, size=n) and fetch_partial(obj, n) with n >= 1 return the
\* first n bytes of an object longer than n bytes, and the whole object
\* otherwise.
C10_FetchFirstBytes ==
    (/\ op = "fetch"
     /\ result.kind = "returned"
     /\ call.size # None /\ Val(call.size) >= 1)
    => result.what = SubSeq(ObjectBytes(call.object_size), 1,
                            Min(Val(call.size), call.object_size))

\* The ranged GETs of a chunked fetch issued so far.
Gets == SelectSeq(log, LAMBDA r : r.method = "GET")

RECURSIVE TotalLen(_)
TotalLen(chunks) ==
    IF chunks = <<>> THEN 0 ELSE Len(Head(chunks)) + TotalLen(Tail(chunks))

Max(a, b) == IF a >= b THEN a ELSE b

\* C11: the chunks a chunked fetch has yielded never total more than
\* min(sizeLimit, totalSize) bytes, or totalSize bytes when no limit is
\* given (the object keeps the size the HEAD reported).
C11_YieldedAtMostMaxSize ==
    (/\ op = "fetch_chunked"
     /\ call.head_size = call.actual_size
     /\ call.size # Some(0))
    => TotalLen(yielded) <= IF call.size = None THEN call.actual_size
                            ELSE Min(Val(call.size), call.actual_size)

\* C12: a chunked fetch issues at most max(1, maxSize) ranged GETs, where
\* maxSize = min(sizeLimit or totalSize, totalSize), so the chunk sequence
\* is finite; and a chunk of zero bytes is the last one: no GET follows it.
C12_ChunkSequenceFinite ==
    op = "fetch_chunked" =>
        /\ Len(Gets) <= Max(1, Min(size_or(call.size, call.head_size),
                                   call.head_size))
        /\ \A i \in 1..(Len(yielded) - 1) : yielded[i] # <<>>
        /\ (yielded # <<>> /\ yielded[Len(yielded)] = <<>> /\ pc = "chunker")
           => ~ENABLED (chunker_next /\ log' # log)

\* A chunked fetch that ended on a zero-byte response after non-empty chunks.
C12_Witness ==
    /\ op = "fetch_chunked"
    /\ gen.state = "finished"
    /\ result.kind = "returned"
    /\ Len(yielded) >= 2
    /\ yielded[Len(yielded)] = <<>>

-----------------------------------------------------------------------------
(* Folder sync *)

\* The names on a "/"-separated path.
RECURSIVE Components(_)
Components(name) ==
    IF \A i \in 1..Len(name) : name[i] # "/" THEN <<name>>
    ELSE LET k == CHOOSE i \in 1..Len(name) :
                    name[i] = "/" /\ \A j \in 1..(i - 1) : name[j] # "/"
         IN  <<SubSeq(name, 1, k - 1)>>
             \o Components(SubSeq(name, k + 1, Len(name)))

\* The object names the sync has sent a request of the given method for.
ObjectsOf(method) ==
    {SubSeq(log[i].name, Len(ContainerName) + 2, Len(log[i].name)) :
        i \in {j \in 1..Len(log) :
                 /\ log[j].method = method
                 /\ Len(log[j].name) > Len(ContainerName) + 1
                 /\ IsPrefix(ContainerName \o <<"/">>, log[j].name)}}

\* The comparison the claim prescribes for a visited file.
ShouldUpload(c) ==
    \/ c.remote = None
    \/ /\ Val(c.remote).etag # get_checksum(c.pth)
       /\ \/ call.ignore_timestamps
          \/ Val(c.remote).last_modified < st_mtime(c.pth)

\* C13: a file the sync has visited is uploaded if and only if the remote
\* object is absent, or the checksums differ and either ignore_timestamps
\* is set or the remote last-modified time is before the local
\* modification time.
C13_UploadDecision ==
    (op = "sync" /\ cur # None /\ Val(cur).kind = "compare")
    => (Val(cur).name \in ObjectsOf("PUT") <=> ShouldUpload(Val(cur)))

\* A name the caller's patterns or the hidden-file rule exclude.
Excluded(nm) ==
    \/ match_pattern(nm, coerce_string_to_list(call.ignore))
    \/ ~call.include_hidden /\ Head(nm) = "."

HasExcluded(names) == \E i \in 1..Len(names) : Excluded(names[i])

\* C14: the sync sends no request for an object one of whose path
\* components matches an ignore pattern or, unless include_hidden, starts
\* with "."; it records no such file as visited and is never inside a
\* directory with such a component.
C14_IgnoredNeverTouched ==
    op = "sync" =>
        /\ \A n \in ObjectsOf("HEAD") \cup ObjectsOf("PUT") :
              ~HasExcluded(Components(n))
        /\ \A i \in 1..Len(_local_files) :
              ~HasExcluded(Components(_local_files[i]))
        /\ \A i \in 1..Len(stack) : ~HasExcluded(stack[i].folder_path)

\* A sync that finished its walk over a folder holding d/b and the hidden
\* directory d/.g, with hidden names excluded, after comparing d/b.
C14_Witness ==
    /\ op = "sync"
    /\ pc = "done"
    /\ result.kind = "returned"
    /\ {<<NameD, NameB>>, <<NameD, NameG, NameA>>} \subseteq call.tree
    /\ ~call.include_hidden
    /\ NameD \o <<"/">> \o NameB \in ObjectsOf("HEAD")

Deletes == SelectSeq(log, LAMBDA r : r.method = "DELETE")

\* No request of the sync failed, a HEAD of a missing object apart.
SyncUndisturbed ==
    \A i \in 1..Len(log) :
        (log[i].method = "PUT" \/ log[i].name = ContainerName) => log[i].ok

\* C15: a sync that has ended has, with delete=True, started exactly one
\* bulk-delete job on the listed names that are not visited local files,
\* and with delete=False none; it never sends a DELETE for one object.
C15_OneBulkDelete ==
    (op = "sync" /\ pc = "done" /\ SyncUndisturbed) =>
        /\ \A i \in 1..Len(Deletes) : Deletes[i].name = BulkDeleteUri
        /\ Len(Deletes) <= 1
        /\ IF call.delete
           THEN /\ deleter.state # "none"
                /\ cur # None
                /\ Val(cur).kind = "listing"
                /\ deleter.object_names =
                      Val(cur).objnames \ ObjectsOf("HEAD")
           ELSE deleter.state = "none" /\ Deletes = <<>>

\* The same for the syncs that returned.
C15_OneBulkDeleteOnReturn ==
    result.kind = "returned" => C15_OneBulkDelete

\* The decision of C13 for the syncs that ignore timestamps.
C13_UploadDecisionIgnoringTimestamps ==
    (op = "sync" /\ call.ignore_timestamps) => C13_UploadDecision

-----------------------------------------------------------------------------
(* Folder upload *)

get_uploaded(upload_key) == folder_upload_status[upload_key].uploaded

\* The bytes of the files with the given object names.
SizeOfNames(names) == SumSizes({Components(nm) : nm \in names})

\* The calls of cancel_folder_upload that reached the status of an upload.
Cancelled == {i \in 1..Len(cancels) : ~cancels[i].raised}

\* C16: the uploaded byte count of an upload is at most its total_bytes.
C16_UploadedAtMostTotal ==
    \A k \in DOMAIN folder_upload_status :
        folder_upload_status[k].uploaded <= folder_upload_status[k].total_bytes

\* The uploaded byte count of an upload never decreases.
C16_UploadedNeverDecreases ==
    [][\A k \in DOMAIN folder_upload_status :
          folder_upload_status'[k].uploaded >= folder_upload_status[k].uploaded]_vars

\* C17: when an upload that was never cancelled and whose PUTs all
\* succeeded has finished, get_uploaded equals its total_bytes.
C17_UploadedEqualsTotalAtFinish ==
    (uploader.state = "finished" /\ Cancelled = {})
    => get_uploaded(IssuedKey) = folder_upload_status[IssuedKey].total_bytes

\* The equality of C17 for the uploads without ignore patterns.
C17_WithoutIgnore ==
    (op = "upload_folder" /\ call.ignore.kind = "none")
    => C17_UploadedEqualsTotalAtFinish

ReportsCompleted(upload_key) ==
    get_uploaded(upload_key) = folder_upload_status[upload_key].total_bytes

\* C19: an upload whose worker has finished, having uploaded every file or
\* having seen a cancel, reports that it is completed.
C19_FinishedReportsCompleted ==
    uploader.state = "finished" => ReportsCompleted(IssuedKey)

\* C20: a cancel_folder_upload with a key that was never issued, or with
\* the key of an upload that has ended, returns without raising and changes
\* no uploaded byte count.
C20_CancelWithoutUploadNoEffect ==
    \A i \in 1..Len(cancels) :
        (\/ cancels[i].upload_key \notin DOMAIN cancels[i].before
         \/ cancels[i].worker \in {"finished", "raised"})
        => /\ ~cancels[i].raised
           /\ DOMAIN cancels[i].after = DOMAIN cancels[i].before
           /\ \A k \in DOMAIN cancels[i].before :
                 cancels[i].after[k].uploaded = cancels[i].before[k].uploaded

\* The claim of C20 for the keys of uploads that have ended.
C20_CancelAfterEndNoEffect ==
    \A i \in 1..Len(cancels) :
        cancels[i].upload_key \in DOMAIN cancels[i].before
        => /\ ~cancels[i].raised
           /\ \A k \in DOMAIN cancels[i].before :
                 cancels[i].after[k].uploaded = cancels[i].before[k].uploaded

-----------------------------------------------------------------------------
(* Bulk deletion *)

\* C21: results of a bulk-delete job is populated only if completed is
\* true.
C21_ResultsOnlyWhenCompleted ==
    deleter.results # None => deleter.completed

\* C22: a bulk-delete job whose DELETE request failed is completed and has
\* the failure in its results.
C22_FailureRecorded ==
    deleter.state = "raised" => deleter.completed /\ deleter.results # None

\* C27: a bulk-delete job that is completed holds the response body of its
\* request in results, and a synchronous bulk_delete that has returned has
\* returned results, not None.
C27_CompletedHasResults ==
    /\ deleter.completed => deleter.results = Some(resp_body(deleter))
    /\ (op = "bulk_delete" /\ ~call.async /\ result.kind = "returned")
       => result.what = "results"

\* A synchronous bulk_delete of two objects that has returned.
C27_Witness ==
    /\ op = "bulk_delete"
    /\ ~call.async
    /\ Cardinality(call.object_names) = 2
    /\ pc = "done"
    /\ result.kind = "returned"
    /\ deleter.completed

-----------------------------------------------------------------------------
(* move_object *)

\* C23: a move_object that has ended has, when its copy PUT succeeded,
\* sent exactly one DELETE, of the original object and after the PUT, and
\* when the copy failed no DELETE.
C23_MoveDeletesSource ==
    (op = "move_object" /\ pc = "done") =>
        IF log[1].ok
        THEN /\ Len(Deletes) = 1
             /\ Deletes[1].name = ObjectUri(GivenName)
             /\ log[1].method = "PUT"
        ELSE Deletes = <<>>

-----------------------------------------------------------------------------
(* Temporary URLs *)

ValidMethod(method) ==
    \E m \in {<<"G", "E", "T">>, <<"P", "U", "T">>} :
        \E lead, trail \in 0..Len(method) :
            /\ lead + trail + Len(m) = Len(method)
            /\ \A i \in 1..lead : method[i] = " "
            /\ \A i \in 1..trail : method[Len(method) + 1 - i] = " "
            /\ \A i \in 1..Len(m) :
                  \/ method[lead + i] = m[i]
                  \/ \E k \in 1..26 : /\ UpperChars[k] = m[i]
                                      /\ LowerChars[k] = method[lead + i]

\* C24: a get_temp_url with a method other than GET or PUT ends with
\* InvalidTemporaryURLMethod without a request having been sent for it;
\* one with GET or PUT that returns, returns a URL whose temp_url_expires
\* is the whole seconds of the call time plus the given seconds.
C24_InvalidMethodBeforeRequests ==
    (op = "get_temp_url" /\ pc = "done") =>
        IF ~ValidMethod(call.method)
        THEN /\ result = Raised("InvalidTemporaryURLMethod", "get_temp_url")
             /\ \A i \in 1..Len(log) : log[i].method # "HEAD"
        ELSE result.kind = "returned" =>
                int(Val(temp_url).temp_url_expires)
                   = (call.now \div 10) + call.seconds

\* The claim of C24 for the calls that are given a key.
C24_WithKey ==
    (op = "get_temp_url" /\ ~no_key(call.key))
    => C24_InvalidMethodBeforeRequests

-----------------------------------------------------------------------------
(* Chunked fetch, continued *)

Heads == SelectSeq(log, LAMBDA r : r.method = "HEAD")

\* C25: a chunked fetch given a name sends one HEAD, before any GET; given
\* a StorageObject it sends no HEAD and the call does not fail for want of
\* the size.
C25_HeadOnlyWithoutSize ==
    op = "fetch_chunked" =>
        IF call.obj = "StorageObject"
        THEN Heads = <<>> /\ result # Raised("UnboundLocalError", "fetch")
        ELSE Len(Heads) = 1 /\ log[1].method = "HEAD"

\* The claim of C25 for the fetches given a name.
C25_ByName ==
    (op = "fetch_chunked" /\ call.obj = "name") => C25_HeadOnlyWithoutSize

RECURSIVE Concat(_)
Concat(chunks) ==
    IF chunks = <<>> THEN <<>> ELSE Head(chunks) \o Concat(Tail(chunks))

\* C29: no chunk of a chunked fetch is longer than chunk_size, the chunks
\* yielded so far are consecutive bytes of the object from its start, and
\* those of a fetch that has ended are its first maxSize bytes (the object
\* keeps the size the HEAD reported).
C29_ChunksConcatenate ==
    (op = "fetch_chunked" /\ call.head_size = call.actual_size) =>
        /\ \A i \in 1..Len(yielded) : Len(yielded[i]) <= call.chunk_size
        /\ Concat(yielded) = SubSeq(ObjectBytes(call.actual_size), 1,
                                    Len(Concat(yielded)))
        /\ (gen.state = "finished" /\ result.kind = "returned")
           => Len(Concat(yielded)) = Min(size_or(call.size, call.head_size),
                                         call.head_size)

-----------------------------------------------------------------------------
(* Folder upload and sync, continued *)

\* The PUTs of files the worker has sent, by object name.
PutFiles == ObjectsOf("PUT")

\* C26: the folder-upload worker sends no PUT for a file one of whose path
\* components below the root folder matches an ignore pattern.
C26_IgnoredNeverUploaded ==
    op = "upload_folder" =>
        \A n \in PutFiles :
            \A i \in 1..Len(Components(n)) :
                ~match_pattern(Components(n)[i],
                               coerce_string_to_list(call.ignore))

\* The claim of C26 for the names of the files themselves.
C26_FileNames ==
    op = "upload_folder" =>
        \A n \in PutFiles :
            ~match_pattern(Components(n)[Len(Components(n))],
                           coerce_string_to_list(call.ignore))

\* C30: the bulk-delete set of a sync holds no object whose name is the
\* relative path of a file of the local tree.
C30_LocalFilesNeverDeleted ==
    op = "sync" =>
        \A f \in call.tree : Join(f) \notin deleter.object_names

\* The claim of C30 for the files the walk visited.
C30_VisitedNeverDeleted ==
    op = "sync" =>
        \A i \in 1..Len(_local_files) :
            _local_files[i] \notin deleter.object_names

-----------------------------------------------------------------------------
(* Concurrent syncs *)

\* C28: when two syncs with delete=True run at once on one client, the
\* bulk-delete set of each is its listing minus the paths its own walk
\* visited.
C28_OwnWalkOnly ==
    /\ (op = "sync" /\ deleter.state # "none")
       => deleter.object_names = Val(cur).objnames \ ObjectsOf("HEAD")
    /\ other.state = "done"
       => other.object_names = other.objnames \ other.visited

\* The claim of C28 for a sync that runs alone.
C28_Alone ==
    other.state = "none" => C28_OwnWalkOnly

====
